---- MODULE Spec2Model ----
(***************************************************************************)
(* Model of the onlythemes backend:                                        *)
(*   - the getRandomTheme stored procedure (the script text shipped by      *)
(*     ThemeExtensionFetch) and a caller that resumes it by continuation,   *)
(*   - the ExtensionUpsert HTTP handler,                                    *)
(*   - the ThemeExtensionFetch HTTP handler with getStoredProcedure.        *)
(* Three specifications share the module: SpecSproc, SpecUpsert, SpecFetch. *)
(***************************************************************************)
EXTENDS Integers, Sequences, FiniteSets, TLC

(***************************************************************************)
(* Bounds.  maxResult is the script's `var maxResult = 1000`, scaled down   *)
(* so that collections below, at and above the cap are all explored.        *)
(***************************************************************************)
maxResult == 3
MaxDocs == 5
MaxCalls == 3
MaxExtensionId == 2
MaxNames == 2
MaxThemeId == 2
NumRequests == 2

\* JavaScript's undefined (the empty continuation token, a missing array
\* element) and null, encoded beside the positive document ids / cursors.
Undefined == 0
Null == -1
\* The error value a failed database call throws.
Err == -2

\* A value that may be undefined: <<>> is undefined, <<x>> is x.
None == <<>>
Some(x) == <<x>>

VARIABLES
  coll,      \* themes collection seen by the script: coll[i] = imageCaptured of doc i
  sp,        \* the running invocation of getRandomTheme (script state + host bookkeeping)
  argTok,    \* continuation token the caller passes to the invocation
  acc,       \* ids the caller has received over the chain of finished invocations
  calls,     \* number of invocations the caller has started
  uin,       \* ExtensionUpsert: context.bindings.extension of the running invocation
  upc,       \* ExtensionUpsert: position of the running invocation
  ures,      \* ExtensionUpsert: context.res
  uhist,     \* ExtensionUpsert: what the invocations did (assignments to context.res, database calls)
  extensions,\* the "extensions" container: a set of documents
  themes,    \* the "themes" container: a set of documents
  sprocs,    \* number of stored procedures named getRandomTheme in "themes"
  req        \* ThemeExtensionFetch: per request, position and locals

sprocVars == <<coll, sp, argTok, acc, calls>>
upsertVars == <<uin, upc, ures, uhist>>
fetchVars == <<themes, sprocs, req>>
notSproc == <<upsertVars, extensions, fetchVars>>
notUpsert == <<sprocVars, fetchVars>>
notFetch == <<sprocVars, upsertVars>>
vars == <<coll, sp, argTok, acc, calls, uin, upc, ures, uhist, extensions, themes, sprocs, req>>

(***************************************************************************)
(* getRandomTheme: the stored procedure                                     *)
(***************************************************************************)

\* Ids of the documents selected by "select c.id from c where c.imageCaptured = true"
\* among positions lo+1 .. hi of the collection.
RECURSIVE FilterQuery(_, _, _)
FilterQuery(c, lo, hi) ==
  IF hi <= lo THEN <<>>
  ELSE FilterQuery(c, lo, hi - 1) \o (IF c[hi] THEN <<hi>> ELSE <<>>)

Matching(c) == {i \in 1..Len(c) : c[i]}
Range(s) == {s[i] : i \in 1..Len(s)}

\* Position a continuation token resumes from (empty token: start of collection).
StartPos(tok) == IF tok = Undefined \/ tok = Null THEN 0 ELSE tok

\* State of a fresh invocation: `var result = []`, no body set, nothing pending.
NewSproc ==
  [ started |-> FALSE,
    result  |-> <<>>,      \* var result
    bodies  |-> <<>>,      \* every getResponse().setBody(...) made, in order
    pending |-> <<>>,      \* continuation of each accepted query whose callback is due
    queries |-> 0,         \* queryDocuments calls made
    late    |-> FALSE,     \* a queryDocuments call was made after a setBody
    refused |-> FALSE,     \* the host answered false to a queryDocuments call
    threw   |-> FALSE ]    \* onReadDocuments threw

\* Variant of getRandomInt with the range one too wide (Math.round for Math.floor).
getRandomIntRounded(min, max) ==
  IF max - min + 1 >= 1 THEN min..(max + 1) ELSE {min}

\* Math.floor(Math.random() * (max - min + 1)) + min, Math.random() in [0, 1).
getRandomInt(min, max) ==
  IF max - min + 1 >= 1 THEN min..max ELSE {min}

\* result[randomIndex] of a JavaScript array (0-based; out of range gives undefined).
ArrayAt(s, i) == IF i + 1 \in 1..Len(s) THEN s[i + 1] ELSE Undefined

\* setBody(continuationToken): the set of states it can leave.
setBody(m, continuationToken) ==
  { [m EXCEPT !.bodies = Append(@, [randomTheme |-> ArrayAt(m.result, randomIndex),
                                    continuationToken |-> continuationToken])]
    : randomIndex \in getRandomInt(0, Len(m.result) - 1) }

\* query(responseOptions): collection.queryDocuments(...); `accepted` is the
\* host's answer. An accepted query owes one onReadDocuments callback.
query(m, continuation, accepted) ==
  [m EXCEPT !.queries = @ + 1,
            !.late = @ \/ m.bodies # <<>>,
            !.refused = @ \/ ~accepted,
            !.pending = IF accepted THEN Append(@, continuation) ELSE @]

\* Variant of tryQuery with `&&` for `||`: below the cap the query is never made.
tryQueryAnd(m, nextContinuationToken, accepted) ==
  IF Len(m.result) >= maxResult
    THEN IF ~accepted
      THEN setBody(query(m, nextContinuationToken, FALSE), nextContinuationToken)
      ELSE {query(m, nextContinuationToken, TRUE)}
    ELSE {m}

\* tryQuery(nextContinuationToken)
tryQuery(m, nextContinuationToken, accepted) ==
  IF Len(m.result) >= maxResult
    THEN setBody(m, nextContinuationToken)
    ELSE IF ~accepted
      THEN setBody(query(m, nextContinuationToken, FALSE), nextContinuationToken)
      ELSE {query(m, nextContinuationToken, TRUE)}

\* onReadDocuments(err, docFeed, responseOptions) for the oldest pending query.
onReadDocuments(m, err, docFeed, continuation, accepted) ==
  LET m0 == [m EXCEPT !.pending = Tail(@)] IN
  IF err THEN {[m0 EXCEPT !.threw = TRUE, !.pending = <<>>]}
  ELSE LET m1 == [m0 EXCEPT !.result = @ \o docFeed] IN
       IF continuation # Undefined
         THEN tryQuery(m1, continuation, accepted)
         ELSE setBody(m1, Null)

\* The pages the host can deliver for a query issued with continuation `tok`:
\* it scans on from the token's position by at least one document (when any is
\* left), returns at most pageSize = maxResult matches, and hands back a
\* continuation unless the scan reached the end of the collection.
Pages(c, tok) ==
  LET p == StartPos(tok) IN
  { [docFeed |-> FilterQuery(c, p, q),
     continuation |-> IF q < Len(c) THEN q ELSE Undefined]
    : q \in { x \in p..Len(c) : /\ (x > p \/ p = Len(c))
                                /\ Len(FilterQuery(c, p, x)) <= maxResult } }

Finished(m) == m.started /\ m.pending = <<>>
Body(m) == m.bodies[Len(m.bodies)]

\* The client runs the script: `tryQuery(continuationToken)` of the script body.
Execute ==
  /\ ~sp.started
  /\ calls < MaxCalls
  /\ \E accepted \in BOOLEAN :
       sp' \in tryQuery([NewSproc EXCEPT !.started = TRUE], argTok, accepted)
  /\ calls' = calls + 1
  /\ UNCHANGED <<coll, argTok, acc, notSproc>>

\* The host delivers a page (or a read error) to onReadDocuments.
PageArrives ==
  /\ sp.started /\ sp.pending # <<>>
  /\ \E err \in BOOLEAN, accepted \in BOOLEAN, page \in Pages(coll, Head(sp.pending)) :
       sp' \in onReadDocuments(sp, err, page.docFeed, page.continuation, accepted)
  /\ UNCHANGED <<coll, argTok, acc, calls, notSproc>>

\* The resumption contract: a caller that got a continuation token back keeps
\* what it received and runs the script again with that token.
Reinvoke ==
  /\ Finished(sp) /\ ~sp.threw /\ sp.bodies # <<>>
  /\ Body(sp).continuationToken \notin {Undefined, Null}
  /\ acc' = acc \cup Range(sp.result)
  /\ argTok' = Body(sp).continuationToken
  /\ sp' = NewSproc
  /\ UNCHANGED <<coll, calls, notSproc>>

(***************************************************************************)
(* ExtensionUpsert (src/backend/api/ExtensionUpsert/index.ts)               *)
(***************************************************************************)

ExtensionDoc(i, n) == [id |-> i, extensionId |-> i, displayName |-> n]
ExtensionInputs == {ExtensionDoc(i, n) : i \in 1..MaxExtensionId, n \in 1..MaxNames}

\* Containers the database can hold: at most one document per id.
ExtensionContainers ==
  {c \in SUBSET ExtensionInputs : \A d, e \in c : d.id = e.id => d = e}

NewHist == [assigned |-> <<>>, dbCalls |-> 0, before |-> {}, prev |-> None, prevOk |-> FALSE]

\* `extension.displayName` (line 14): reading a property of undefined throws.
logThrows(extension) == extension = None

\* Variant of upsert that inserts without replacing.
upsertInsertOnly(container, doc) == container \cup {doc}

\* container.items.upsert(extension): insert, or replace the document of that id.
upsert(container, doc) == {d \in container : d.id # doc.id} \cup {doc}

\* context.res = {...}: the assignment, recorded in order.
assign(h, status) == [h EXCEPT !.assigned = Append(@, status)]

\* Variant of the trailing assignment made only when no response was set.
finalResIfUnset(res) == IF res = None THEN Some([status |-> 404, body |-> None]) ELSE res

\* The trailing `context.res = { status: 404 }` (lines 36-38).
finalRes(res) == Some([status |-> 404, body |-> None])

\* Lines 12-16: read the binding, log its displayName, test it.
UpsertInvoke ==
  /\ upc = "idle"
  /\ \E extension \in {Some(e) : e \in ExtensionInputs} \cup {None} :
       /\ uin' = extension
       /\ uhist' = [uhist EXCEPT !.assigned = <<>>, !.dbCalls = 0, !.before = extensions]
       /\ IF logThrows(extension)
            THEN upc' = "threw" /\ ures' = None
            ELSE IF extension # None
              THEN upc' = "ensureDatabase" /\ ures' = None
              ELSE /\ upc' = "done"
                   /\ ures' = finalRes(None)
  /\ UNCHANGED <<extensions, notUpsert>>

\* The catch block (lines 28-33) followed by the trailing assignment.
Caught(h) ==
  /\ uhist' = assign(assign([h EXCEPT !.dbCalls = @ + 1], 500), 404)
  /\ ures' = finalRes(Some([status |-> 500, body |-> Some(Err)]))
  /\ upc' = "done"

\* Line 19: databases.createIfNotExists resolves or throws.
UpsertEnsureDatabase ==
  /\ upc = "ensureDatabase"
  /\ \E ok \in BOOLEAN :
       IF ok THEN /\ upc' = "ensureContainer"
                  /\ uhist' = [uhist EXCEPT !.dbCalls = @ + 1]
                  /\ ures' = ures
             ELSE Caught(uhist)
  /\ UNCHANGED <<uin, extensions, notUpsert>>

\* Line 20: containers.createIfNotExists resolves or throws.
UpsertEnsureContainer ==
  /\ upc = "ensureContainer"
  /\ \E ok \in BOOLEAN :
       IF ok THEN /\ upc' = "upsert"
                  /\ uhist' = [uhist EXCEPT !.dbCalls = @ + 1]
                  /\ ures' = ures
             ELSE Caught(uhist)
  /\ UNCHANGED <<uin, extensions, notUpsert>>

\* Lines 21-26 and 36-38: the upsert resolves (200 with the id is assigned, then
\* the trailing assignment runs) or throws (500, then the trailing assignment).
UpsertItem ==
  /\ upc = "upsert"
  /\ \E ok \in BOOLEAN :
       IF ok THEN /\ extensions' = upsert(extensions, uin[1])
                  /\ uhist' = assign(assign([uhist EXCEPT !.dbCalls = @ + 1], 200), 404)
                  /\ ures' = finalRes(Some([status |-> 200, body |-> Some(uin[1].id)]))
                  /\ upc' = "done"
             ELSE Caught(uhist) /\ extensions' = extensions
  /\ UNCHANGED <<uin, notUpsert>>

\* The invocation is over (returned or rejected); the next request may come.
UpsertReturn ==
  /\ upc \in {"done", "threw"}
  /\ upc' = "idle"
  /\ uhist' = [uhist EXCEPT !.prev = uin, !.prevOk = (200 \in Range(uhist.assigned))]
  /\ UNCHANGED <<uin, ures, extensions, notUpsert>>

UpsertIdle ==
  /\ uin = None /\ upc = "idle" /\ ures = None /\ uhist = NewHist

(***************************************************************************)
(* ThemeExtensionFetch with getStoredProcedure (src/unnamed/part_000)       *)
(***************************************************************************)

ThemeDocs ==
  [id : 1..MaxThemeId, extensionId : 1..MaxExtensionId + 1, imageCaptured : BOOLEAN]
ThemeContainers ==
  {c \in SUBSET ThemeDocs : \A d, e \in c : d.id = e.id => d = e}

NewRequest ==
  [ pc          |-> "start",
    listed      |-> FALSE,   \* storedProcedures.find(...) found getRandomTheme
    submitted   |-> FALSE,   \* storedProcedures.create(...) was called
    sproc       |-> "none",  \* "handle" or "null": what getStoredProcedure returned
    randomTheme |-> Undefined,
    looked      |-> FALSE,   \* the theme lookup (lines 115-120) returned
    theme       |-> None,
    extension   |-> None,
    res         |-> None ]

\* resources[0] of a query result: undefined when nothing matched.
First(matches) == IF matches = {} THEN {None} ELSE {Some(d) : d \in matches}

\* Status codes of a creation the store accepted.
CreateStatus == {200, 201}

\* getStoredProcedure, lines 12-15: list the procedures and look for sprocId.
listSprocs(rq, installed) == [rq EXCEPT !.pc = "listed", !.listed = installed > 0]

\* Variant of getStoredProcedure that skips the presence test and always creates.
getStoredProcedureNoFind(rq, installed) ==
  IF installed > 0
    THEN {[rq |-> [rq EXCEPT !.pc = "threw", !.submitted = TRUE], installed |-> installed]}
    ELSE {[rq |-> [rq EXCEPT !.submitted = TRUE,
                             !.sproc = IF statusCode = 200 THEN "handle" ELSE "null",
                             !.pc = IF statusCode = 200 THEN "have" ELSE "threw"],
           installed |-> installed + 1] : statusCode \in {200, 201}}

\* getStoredProcedure, lines 13-91, after the listing: the outcomes, each with the
\* number of procedures left in the container. The store keeps procedure ids
\* unique: a creation for an existing id is rejected and create() throws.
getStoredProcedure(rq, installed) ==
  IF rq.listed
    THEN {[rq |-> [rq EXCEPT !.pc = "have", !.sproc = "handle"], installed |-> installed]}
    ELSE IF installed > 0
      THEN {[rq |-> [rq EXCEPT !.pc = "threw", !.submitted = TRUE], installed |-> installed]}
      ELSE {[rq |-> [rq EXCEPT !.submitted = TRUE,
                               !.sproc = IF statusCode = 200 THEN "handle" ELSE "null",
                               !.pc = IF statusCode = 200 THEN "have" ELSE "threw"],
             installed |-> installed + 1] : statusCode \in CreateStatus}

\* Lines 110-112: one execution of getRandomTheme with no continuation token;
\* randomTheme is an element of the script's result, or undefined.
execute(rq, container) ==
  {[rq EXCEPT !.pc = "executed", !.randomTheme = t]
     : t \in {d.id : d \in {x \in container : x.imageCaptured}} \cup {Undefined}}

\* Lines 112-122: `randomTheme.id` throws on undefined; theme = resources[0].
themeLookup(rq, container) ==
  IF rq.randomTheme = Undefined
    THEN {[rq EXCEPT !.pc = "threw"]}
    ELSE {[rq EXCEPT !.pc = "themed", !.looked = TRUE, !.theme = t]
            : t \in First({d \in container : d.id = rq.randomTheme})}

\* Variant of extensionLookup that reads a property of resources[0].
extensionLookupDeref(rq, container) ==
  IF rq.theme = None \/ {d \in container : d.extensionId = rq.theme[1].extensionId} = {}
    THEN {[rq EXCEPT !.pc = "threw"]}
    ELSE {[rq EXCEPT !.pc = "done", !.extension = Some(e),
                     !.res = Some([status |-> 200,
                                   body |-> [theme |-> rq.theme, extension |-> Some(e)]])]
            : e \in {d \in container : d.extensionId = rq.theme[1].extensionId}}

\* Lines 124-136: `theme.extensionId` throws on undefined; extension =
\* resources[0]; the response is assigned.
extensionLookup(rq, container) ==
  IF rq.theme = None
    THEN {[rq EXCEPT !.pc = "threw"]}
    ELSE {[rq EXCEPT !.pc = "done", !.extension = e,
                     !.res = Some([status |-> IF rq.theme # None THEN 200 ELSE 404,
                                   body |-> [theme |-> rq.theme, extension |-> e]])]
            : e \in First({d \in container : d.extensionId = rq.theme[1].extensionId})}

FetchListSprocs(r) ==
  /\ req[r].pc = "start"
  /\ req' = [req EXCEPT ![r] = listSprocs(@, sprocs)]
  /\ UNCHANGED <<themes, sprocs, extensions, notFetch>>

FetchGetSproc(r) ==
  /\ req[r].pc = "listed"
  /\ \E o \in getStoredProcedure(req[r], sprocs) :
       /\ req' = [req EXCEPT ![r] = o.rq]
       /\ sprocs' = o.installed
  /\ UNCHANGED <<themes, extensions, notFetch>>

FetchExecute(r) ==
  /\ req[r].pc = "have"
  /\ \E rq \in execute(req[r], themes) : req' = [req EXCEPT ![r] = rq]
  /\ UNCHANGED <<themes, sprocs, extensions, notFetch>>

FetchThemeLookup(r) ==
  /\ req[r].pc = "executed"
  /\ \E rq \in themeLookup(req[r], themes) : req' = [req EXCEPT ![r] = rq]
  /\ UNCHANGED <<themes, sprocs, extensions, notFetch>>

FetchExtensionLookup(r) ==
  /\ req[r].pc = "themed"
  /\ \E rq \in extensionLookup(req[r], extensions) : req' = [req EXCEPT ![r] = rq]
  /\ UNCHANGED <<themes, sprocs, extensions, notFetch>>

\* The request is over; its slot serves the next request.
FetchReturn(r) ==
  /\ req[r].pc \in {"done", "threw"}
  /\ req' = [req EXCEPT ![r] = NewRequest]
  /\ UNCHANGED <<themes, sprocs, extensions, notFetch>>

\* Theme documents are authored outside this code; one is removed.
ExternalDeleteTheme ==
  /\ \E d \in themes : themes' = themes \ {d}
  /\ UNCHANGED <<sprocs, req, extensions, notFetch>>

FetchIdle ==
  /\ themes = {} /\ sprocs = 0 /\ req = <<>>

(***************************************************************************)
(* Specifications                                                           *)
(***************************************************************************)

SprocIdle ==
  /\ coll = <<>> /\ sp = NewSproc /\ argTok = Undefined /\ acc = {} /\ calls = 0

AllColls == UNION { [1..n -> BOOLEAN] : n \in 0..MaxDocs }

InitSproc ==
  /\ coll \in AllColls
  /\ sp = NewSproc
  /\ argTok = Undefined
  /\ acc = {}
  /\ calls = 0
  /\ UpsertIdle /\ extensions = {} /\ FetchIdle

NextSproc ==
  \/ Execute
  \/ PageArrives
  \/ Reinvoke

SpecSproc == InitSproc /\ [][NextSproc]_vars

InitUpsert ==
  /\ UpsertIdle
  /\ extensions \in ExtensionContainers
  /\ SprocIdle /\ FetchIdle

NextUpsert ==
  \/ UpsertInvoke
  \/ UpsertEnsureDatabase
  \/ UpsertEnsureContainer
  \/ UpsertItem
  \/ UpsertReturn

SpecUpsert == InitUpsert /\ [][NextUpsert]_vars

NextFetch ==
  \/ \E r \in DOMAIN req : FetchListSprocs(r)
  \/ \E r \in DOMAIN req : FetchGetSproc(r)
  \/ \E r \in DOMAIN req : FetchExecute(r)
  \/ \E r \in DOMAIN req : FetchThemeLookup(r)
  \/ \E r \in DOMAIN req : FetchExtensionLookup(r)
  \/ \E r \in DOMAIN req : FetchReturn(r)
  \/ ExternalDeleteTheme

\* One request at a time over every seeding of the two containers.
InitFetch ==
  /\ themes \in ThemeContainers
  /\ extensions \in SUBSET {ExtensionDoc(i, 1) : i \in 1..MaxExtensionId}
  /\ sprocs = 0
  /\ req = [r \in 1..1 |-> NewRequest]
  /\ SprocIdle /\ UpsertIdle

SpecFetch == InitFetch /\ [][NextFetch]_vars

\* Concurrent requests over one seeded database.
InitInstall ==
  /\ themes = {[id |-> i, extensionId |-> i, imageCaptured |-> TRUE] : i \in 1..MaxThemeId}
  /\ extensions = {ExtensionDoc(i, 1) : i \in 1..MaxExtensionId}
  /\ sprocs = 0
  /\ req = [r \in 1..NumRequests |-> NewRequest]
  /\ SprocIdle /\ UpsertIdle

SpecInstall == InitInstall /\ [][NextFetch]_vars

(***************************************************************************)
(* Claims about getRandomTheme (SpecSproc)                                  *)
(***************************************************************************)

BelowCap == Cardinality(Matching(coll)) < maxResult
AboveCap == Cardinality(Matching(coll)) > maxResult
FirstInvocationOver == Finished(sp) /\ argTok = Undefined
Token == Body(sp).continuationToken
Absent(tok) == tok = Null \/ tok = Undefined

\* C1 (as stated): below the cap, one invocation started with an empty token
\* finishes with continuationToken = null, the accumulated set equal to the
\* matching set, and randomTheme a member of it, for every size below the cap.
\* Stated here for the invocations the host lets run to the end (no query
\* refused, no read error), where it already fails.
C1_AsStated ==
  (FirstInvocationOver /\ BelowCap /\ ~sp.refused /\ ~sp.threw) =>
     /\ Len(sp.bodies) = 1
     /\ Token = Null
     /\ Range(sp.result) = Matching(coll)
     /\ Body(sp).randomTheme \in Matching(coll)

\* C1 (amended): below the cap, an invocation started with an empty token that
\* does not throw sets one body; its token is null exactly when the host refused
\* no query; the accumulated list is the matching documents up to the end of the
\* collection (null token) or up to the refused query's position; randomTheme is
\* a member of it, or undefined when it is empty.
C1_BelowCap ==
  (FirstInvocationOver /\ BelowCap /\ ~sp.threw) =>
     /\ Len(sp.bodies) = 1
     /\ (Token = Null) <=> (~sp.refused)
     /\ sp.result = FilterQuery(coll, 0, IF Token = Null THEN Len(coll) ELSE StartPos(Token))
     /\ (Token = Null => Range(sp.result) = Matching(coll))
     /\ Body(sp).randomTheme \in
          (IF sp.result = <<>> THEN {Undefined} ELSE Range(sp.result))

C1_Witness ==
  /\ FirstInvocationOver /\ BelowCap /\ sp.bodies # <<>>
  /\ sp.queries >= 2
  /\ Token = Null
  /\ Cardinality(Matching(coll)) = maxResult - 1
  /\ Range(sp.result) = Matching(coll)
  /\ Body(sp).randomTheme \in Matching(coll)

\* C2: above the cap the first invocation returns a non-null token, and when the
\* chain of reinvocations ends with a null or absent token the documents received
\* over the chain are all the matching documents.
C2_ChainCovers ==
  AboveCap =>
     /\ (FirstInvocationOver /\ sp.bodies # <<>>) => ~Absent(Token)
     /\ (Finished(sp) /\ sp.bodies # <<>> /\ Absent(Token))
          => acc \cup Range(sp.result) = Matching(coll)

\* C3: a body whose continuationToken is null or absent means the scan is
\* complete: every matching document from the invocation's starting position to
\* the end of the collection was accumulated in the invocation.
C3_NullMeansComplete ==
  (Finished(sp) /\ sp.bodies # <<>> /\ Absent(Token)) =>
     Range(sp.result) = {i \in Matching(coll) : i > StartPos(argTok)}

\* C10: an invocation without a read error sets the body exactly once, at the end
\* of its chain of queries: while a callback is due no body is set, once none is
\* due exactly one body is set, and no query is made after it; an invocation with
\* a read error throws and sets no body.
C10_BodySetOnce ==
  sp.started =>
     /\ Len(sp.bodies) <= 1
     /\ ~sp.late
     /\ sp.threw => (sp.bodies = <<>> /\ sp.pending = <<>>)
     /\ ~sp.threw => ((sp.bodies = <<>>) # (sp.pending = <<>>))

C10_Witness ==
  /\ Finished(sp) /\ ~sp.threw
  /\ Len(sp.bodies) = 1
  /\ sp.queries >= 3
  /\ sp.refused
  /\ Len(sp.result) >= 1

(***************************************************************************)
(* Claims about ExtensionUpsert (SpecUpsert)                                *)
(***************************************************************************)

NotFound == Some([status |-> 404, body |-> None])
SameId(container, doc) == {d \in container : d.id = doc.id}
OtherIds(container, doc) == {d \in container : d.id # doc.id}

\* C4: with the extension present, the response finally left in context.res has
\* status 404, after 200 was assigned (the upsert succeeded) and after 500 was
\* assigned (a database call threw).
C4_Always404 ==
  (upc = "done" /\ uin # None) =>
     /\ ures = NotFound
     /\ uhist.assigned \in {<<200, 404>>, <<500, 404>>}

C4_Witness ==
  /\ upc = "done" /\ uin # None
  /\ uhist.assigned = <<200, 404>>
  /\ ures = NotFound
  /\ uin[1] \in extensions

\* C5: with the extension absent the invocation makes no database call and
\* completes with a 404 response instead of failing.
C5_AbsentGives404 ==
  (upc \in {"done", "threw"} /\ uin = None) =>
     /\ upc = "done"
     /\ ures = NotFound
     /\ uhist.dbCalls = 0

SecondUpsert ==
  /\ upc = "done" /\ uin # None
  /\ uhist.prev # None /\ uhist.prevOk
  /\ uhist.prev[1].id = uin[1].id
  /\ uhist.prev[1].displayName # uin[1].displayName

Over(rq) == rq.pc \in {"done", "threw"}
NoExtensionFor(theme) == \A d \in extensions : d.extensionId # theme.extensionId

\* C7: the handler responds 200 with both records when the theme lookup returns a
\* record and 404 when it returns none, reaching the response assignment.
C7_ZeroResults404 ==
  \A r \in DOMAIN req :
     (req[r].looked /\ Over(req[r])) =>
        /\ req[r].pc = "done"
        /\ req[r].res # None
        /\ req[r].res[1].status = IF req[r].theme # None THEN 200 ELSE 404

\* C8: with a resolved theme whose extensionId matches no extension document the
\* handler does not throw: it completes and sets a response whose extension is
\* absent.
C8_NoExtensionNoCrash ==
  \A r \in DOMAIN req :
     (Over(req[r]) /\ req[r].theme # None /\ NoExtensionFor(req[r].theme[1])) =>
        /\ req[r].pc = "done"
        /\ req[r].res = Some([status |-> 200,
                              body |-> [theme |-> req[r].theme, extension |-> None]])

C8_Witness ==
  \E r \in DOMAIN req :
     /\ req[r].pc = "done"
     /\ req[r].theme # None /\ NoExtensionFor(req[r].theme[1])
     /\ req[r].res # None
     /\ req[r].res[1].body.extension = None

\* C9 (as stated): once the procedure exists in the container, no
\* getStoredProcedure call submits another creation for it.
C9_AsStated ==
  [][\A r \in DOMAIN req :
       (sprocs >= 1 /\ ~req[r].submitted) => ~req'[r].submitted]_vars

\* C9 (amended): the container holds at most one procedure getRandomTheme; a
\* getStoredProcedure call whose listing found it submits no creation and returns
\* a handle to it; a handle is only ever returned for an installed procedure; a
\* call whose listing did not find it submits a creation, which the store rejects
\* (the call throws) when another request has installed the procedure meanwhile.
C9_InstalledOnce ==
  /\ sprocs <= 1
  /\ \A r \in DOMAIN req :
       /\ req[r].listed => ~req[r].submitted
       /\ (req[r].listed /\ req[r].pc \notin {"start", "listed"}) => req[r].sproc = "handle"
       /\ req[r].sproc # "none" => sprocs = 1
       /\ (req[r].submitted /\ req[r].sproc = "none") => (req[r].pc = "threw" /\ sprocs = 1)

C9_Witness ==
  \E r, q \in DOMAIN req :
     /\ r # q
     /\ req[r].submitted /\ req[r].sproc = "handle"
     /\ req[q].listed /\ ~req[q].submitted /\ req[q].sproc = "handle"
     /\ sprocs = 1

====
